---- MODULE Spec2Model ----
(***************************************************************************)
(* Model of src/src/crawler.ts: PolishPatentCrawler.crawl() and the two    *)
(* router handlers it registers, run by crawlee's PlaywrightCrawler.       *)
(*                                                                         *)
(* The handlers are translated from the source.  The crawler engine is a   *)
(* library: it is modelled by the behaviour its options select (lines      *)
(* 244-255): requests are taken from the queue while fewer than            *)
(* maxRequestsPerCrawl have been handled, up to MaxConcurrency at a time;  *)
(* an error leaving a handler (or the handler timing out after             *)
(* requestHandlerTimeoutSecs) reclaims the request until its retries are   *)
(* used up; a NonRetryableError fails the request at once; a failed        *)
(* request is given to failedRequestHandler and run() still resolves; the  *)
(* request queue keeps one request per URL.                                *)
(*                                                                         *)
(* Strings are sequences of tokens; SP is a whitespace token.              *)
(***************************************************************************)
EXTENDS Integers, Sequences, FiniteSets, TLC

\* ------------------------------------------------------------------ bounds
\* distinct detail URLs the portal can list
MaxUrls == 2
\* result pages of a listing
MaxPages == 2
\* requests the engine runs at the same time (autoscaled pool)
MaxConcurrency == 2
\* retries of a request whose handler or navigation failed (engine option)
MaxRequestRetries == 1
\* maxRequestsPerCrawl (line 249: 1000), scaled to the model's listing sizes
MaxRequestsPerCrawl == 2
\* parts a portal message is put together from
MaxParts == 3

URLs == 1..MaxUrls

NaN == -1
SP == " "

VARIABLES
    pc,                    \* main(): "start", "running", "exit0", "exit1"
    options,               \* CrawlerOptions: startDate, endDate
    formFilled,            \* PolishPatentCrawler.formFilled
    results,               \* PolishPatentCrawler.results
    output,                \* the output file: None before the write, else Some(content)
    writes,                \* number of writeFileSync calls
    entry,                 \* the request for baseUrl: state, retryCount, page
    detail,                \* per URL: the "detail" request's state
    handledRequestsCount,  \* requests finished (handled or failed) by the engine
    nPages,                \* the portal's listing: number of result pages
    lastControl,           \* the next-page control of the listing's last page
    visited,               \* pages the walker took links from, this invocation
    walkerRuns,            \* times the default handler entered its do-while loop
    searchCalls,           \* executeSearch invocations so far
    nonRetryable,          \* executeSearch threw NonRetryableError
    extraction,            \* per URL: what the detail handler did
    errorText,             \* .tabs-info-message text read by executeSearch
    searchOutcome,         \* how executeSearch ended on errorText
    form,                  \* the search form while executeSearch is followed step
                           \* by step; None where executeSearch is one step
    rendered               \* per URL: Some(the detail page the portal serves);
                           \* None where the page is chosen when it is read

vars == <<pc, options, formFilled, results, output, writes, entry, detail,
          handledRequestsCount, nPages, lastControl, visited, walkerRuns, searchCalls,
          nonRetryable, extraction, errorText, searchOutcome, form, rendered>>

\* ------------------------------------------------------------ checkDateRange
\* a date string that passed parseArgs' /^\d{4}-\d{2}-\d{2}$/ is <<yyyy, MM, dd>>.
\* The options of the runs explored: a valid range, a reversed one, and one
\* whose start date is no calendar date
RunOptions ==
    { [startDate |-> <<2024, 1, 1>>, endDate |-> <<2024, 12, 31>>],
      [startDate |-> <<2024, 12, 31>>, endDate |-> <<2024, 1, 1>>],
      [startDate |-> <<2024, 2, 30>>, endDate |-> <<2024, 12, 31>>] }

DaysInMonth(y, m) ==
    IF m \in {4, 6, 9, 11} THEN 30
    ELSE IF m = 2 THEN (IF y % 4 = 0 /\ (y % 100 # 0 \/ y % 400 = 0) THEN 29 ELSE 28)
    ELSE 31

\* date-fns parse(dateStr, "yyyy-MM-dd", new Date()).getTime(): NaN for a
\* month or day out of range, else a number ordered as the calendar
parse(d) ==
    IF d[2] \in 1..12 /\ d[3] \in 1..DaysInMonth(d[1], d[2])
    THEN d[1] * 372 + d[2] * 31 + d[3]
    ELSE NaN

isValidDate(d) == parse(d) # NaN

\* faulty variant: line 51 with >= for >
checkDateRangeStrict(o) ==
    IF ~isValidDate(o.startDate) \/ ~isValidDate(o.endDate) THEN FALSE
    ELSE ~(parse(o.startDate) >= parse(o.endDate))

\* TRUE when checkDateRange returns, FALSE when it throws
checkDateRange(o) ==
    IF ~isValidDate(o.startDate) \/ ~isValidDate(o.endDate) THEN FALSE
    ELSE ~(parse(o.startDate) > parse(o.endDate))

\* ------------------------------------------------------------------ strings
None == << >>
Some(x) == << x >>

\* String.prototype.toLowerCase, on the tokens messages are made of
LowerToken(t) ==
    CASE t = "No" -> "no"
      [] t = "Too" -> "too"
      [] t = "Results" -> "results"
      [] OTHER -> t

ToLowerCase(s) == [i \in 1..Len(s) |-> LowerToken(s[i])]

RECURSIVE TrimStart(_)
TrimStart(s) == IF s # << >> /\ Head(s) = SP THEN TrimStart(Tail(s)) ELSE s

RECURSIVE TrimEnd(_)
TrimEnd(s) ==
    IF s # << >> /\ s[Len(s)] = SP THEN TrimEnd(SubSeq(s, 1, Len(s) - 1)) ELSE s

\* String.prototype.trim
Trim(s) == TrimEnd(TrimStart(s))

\* replace(/\s+/g, " ")
RECURSIVE CollapseSpaces(_)
CollapseSpaces(s) ==
    IF Len(s) < 2 THEN s
    ELSE IF s[1] = SP /\ s[2] = SP THEN CollapseSpaces(Tail(s))
    ELSE << s[1] >> \o CollapseSpaces(Tail(s))

\* String.prototype.includes: scan the start positions left to right
RECURSIVE IncludesFrom(_, _, _)
IncludesFrom(s, sub, i) ==
    IF i + Len(sub) - 1 > Len(s) THEN FALSE
    ELSE IF SubSeq(s, i, i + Len(sub) - 1) = sub THEN TRUE
    ELSE IncludesFrom(s, sub, i + 1)

Includes(s, sub) == IncludesFrom(s, sub, 1)

\* ------------------------------------------------------------ executeSearch
NoResultsPhrase == << "no", SP, "results", SP, "found" >>
TooManyPhrase == << "too", SP, "many", SP, "results", SP, "found" >>

\* faulty variant: the two tests of lines 129 and 133 in the other order
ExecuteSearchOutcomeSwapped(msg) ==
    IF msg = None THEN "Success"
    ELSE LET text == Trim(ToLowerCase(msg[1])) IN
         IF Includes(text, TooManyPhrase) THEN "TooManyResults"
         ELSE IF Includes(text, NoResultsPhrase) THEN "NoResults"
         ELSE "Success"

\* lines 123-137: msg is None when $eval finds no .tabs-info-message (the
\* catch gives null), else Some(textContent); the result is how the method ends
ExecuteSearchOutcome(msg) ==
    IF msg = None THEN "Success"
    ELSE LET text == Trim(ToLowerCase(msg[1])) IN
         IF Includes(text, NoResultsPhrase) THEN "NoResults"
         ELSE IF Includes(text, TooManyPhrase) THEN "TooManyResults"
         ELSE "Success"

\* ------------------------------------------------------ configureCheckboxes
\* lines 58-62
targetCheckboxes ==
    << "pwp_criteria_0",
       "collections_criteria_advanced_7",
       "collections_criteria_advanced_7_child_attrs_0" >>

\* Array.prototype.includes
ArrayIncludes(arr, x) == \E k \in 1..Len(arr) : arr[k] = x

\* an input[type="checkbox"] of the page: id is None when getAttribute("id")
\* gives null or "", else Some(id); proxy says whether
\* closest(".ui-chkbox")?.querySelector(".ui-chkbox-box") finds an element
Checkbox(id, checked, proxy) == [id |-> id, checked |-> checked, proxy |-> proxy]

\* faulty variant: line 66 left out, a checkbox without id counts as "other"
NeedsClickAlsoWithoutId(cb) ==
    cb.checked # (cb.id # None /\ ArrayIncludes(targetCheckboxes, cb.id[1]))

\* lines 65-71: the checkbox is not skipped and isChecked !== shouldBeChecked
NeedsClick(cb) ==
    cb.id # None /\ cb.checked # ArrayIncludes(targetCheckboxes, cb.id[1])

\* lines 71-82 when the loop goes on to the next checkbox: a click on the
\* proxy toggles the checkbox; without a proxy nothing is clicked
ClickIfNeeded(cb) ==
    IF NeedsClick(cb) /\ cb.proxy THEN [cb EXCEPT !.checked = ~cb.checked] ELSE cb

\* ----------------------------------------------------------- inputDateValue
\* a text input is [text, selected]: its characters, and whether all of them
\* are selected
Input(text) == [text |-> text, selected |-> FALSE]

\* page.click(selector): focus, caret at the end, nothing selected
Click(inp) == [inp EXCEPT !.selected = FALSE]

\* keyboard.press("Control+A")
SelectAll(inp) == [inp EXCEPT !.selected = TRUE]

\* keyboard.press("Backspace"): the selection goes, else the last character
Backspace(inp) ==
    IF inp.selected THEN [text |-> << >>, selected |-> FALSE]
    ELSE IF inp.text = << >> THEN inp
    ELSE [inp EXCEPT !.text = SubSeq(inp.text, 1, Len(inp.text) - 1)]

\* page.type(selector, value): the characters replace the selection, else
\* they are added at the caret
Type(inp, value) ==
    IF inp.selected THEN [text |-> value, selected |-> FALSE]
    ELSE [inp EXCEPT !.text = inp.text \o value]

\* lines 91-94
inputDateValue(inp, value) == Type(Backspace(SelectAll(Click(inp))), value)

\* faulty variant: the start date goes to #attribute_date_from
DateFromValueUnswapped(o) == o.startDate

\* line 108: #attribute_date_from gets options.endDate
DateFromValue(o) == o.endDate

\* line 109: #attribute_date_to gets options.startDate
DateToValue(o) == o.startDate

\* the form of the page: its checkboxes in document order, i the checkbox the
\* loop of line 64 is at, the two date inputs, the step executeSearch is at
\* ("checkboxes", "date_from", "date_to", "submit", "submitted", "threw"),
\* sent: None, or Some(the dates the inputs held when line 113 clicked), and
\* loaded: the checkboxes and date texts as the page was loaded
Form(boxes, from, to) ==
    [boxes |-> boxes, i |-> 1, date_from |-> Input(from), date_to |-> Input(to),
     step |-> "checkboxes", sent |-> None,
     loaded |-> [boxes |-> boxes, date_from |-> from, date_to |-> to]]

\* line 113: the click on the submit control sends what the inputs hold
ClickSubmit(f) ==
    [f EXCEPT !.step = "submitted",
              !.sent = Some([date_from |-> f.date_from.text,
                             date_to |-> f.date_to.text])]

\* ----------------------------------------------------- getDetailInformation
\* lines 143-152, in Object.entries order
fieldMappings == <<
    [label |-> << "Name/Title" >>, field |-> "nameTitle"],
    [label |-> << "Status" >>, field |-> "status"],
    [label |-> << "Application", SP, "date" >>, field |-> "applicationDate"],
    [label |-> << "Revelation", SP, "date" >>, field |-> "revelationDate"],
    [label |-> << "Application", SP, "number" >>, field |-> "applicationNumber"],
    [label |-> << "Category", SP, "of", SP, "rights" >>, field |-> "categoryOfRights"],
    [label |-> << "Registration", SP, "number" >>, field |-> "registrationNumber"],
    [label |-> << "Trademark", SP, "type" >>, field |-> "trademarkType"] >>

\* lines 167-169: Object.entries(fieldMappings).find(...)?.[1]
RECURSIVE FindFieldFrom(_, _)
FindFieldFrom(labelText, k) ==
    IF k > Len(fieldMappings) THEN None
    ELSE IF Includes(labelText, fieldMappings[k].label) THEN Some(fieldMappings[k].field)
    ELSE FindFieldFrom(labelText, k + 1)

\* faulty variant: the last entry that matches wins
FindFieldLast(labelText) ==
    LET hits == { k \in 1..Len(fieldMappings) : Includes(labelText, fieldMappings[k].label) }
    IN  IF hits = {} THEN None
        ELSE Some(fieldMappings[CHOOSE k \in hits : \A j \in hits : j <= k].field)

FindField(labelText) == FindFieldFrom(labelText, 1)

\* lines 172-179: a cell is [title, text, highlight]; highlight is None when
\* the cell has no .highlight span, else Some(the span's textContent).
\* The result is None for null, else Some(string)
ResolveValue(valueCell) ==
    LET hl == IF valueCell.highlight = None THEN << >> ELSE Trim(valueCell.highlight[1])
        value == IF hl = << >> THEN CollapseSpaces(Trim(valueCell.text)) ELSE hl
    IN  IF value = << >> THEN None ELSE Some(value)

\* result[fieldName] = v
SetField(result, fieldName, v) ==
    [f \in (DOMAIN result) \cup {fieldName} |-> IF f = fieldName THEN v ELSE result[f]]

\* lines 159-182: the cells of one row, two at a time
RECURSIVE ExtractCells(_, _, _)
ExtractCells(result, cells, i) ==
    IF i > Len(cells) THEN result
    ELSE LET labelCell == cells[i]
             next ==
                 IF labelCell.title /\ i + 1 <= Len(cells)
                 THEN LET labelText == CollapseSpaces(Trim(labelCell.text))
                          fieldName == FindField(labelText)
                      IN  IF fieldName # None
                          THEN SetField(result, fieldName[1], ResolveValue(cells[i + 1]))
                          ELSE result
                 ELSE result
         IN  ExtractCells(next, cells, i + 2)

\* lines 154-185: rows.forEach
RECURSIVE ExtractRows(_, _, _)
ExtractRows(result, rows, r) ==
    IF r > Len(rows) THEN result
    ELSE ExtractRows(ExtractCells(result, rows[r], 1), rows, r + 1)

EmptyRecord == [f \in {} |-> None]

getDetailInformation(page) == ExtractRows(EmptyRecord, page, 1)

\* Object.keys(data).length
KeyCount(data) == Cardinality(DOMAIN data)

\* JSON.stringify(this.results, null, 2): per record, its key/value members
JSONStringify(rs) ==
    [i \in 1..Len(rs) |-> { << f, rs[i][f] >> : f \in DOMAIN rs[i] }]

\* ------------------------------------------------------------- the portal
\* what the search response may show in a run: no message, or one of these
MsgNoResults == << "No", SP, "results", SP, "found", SP, "x" >>
MsgTooMany == << "Too", SP, "many", SP, "results", SP, "found" >>
RunMessages == { None, Some(MsgNoResults), Some(MsgTooMany) }

\* the detail pages a URL may render: rows of cells
Cell(title, text, highlight) == [title |-> title, text |-> text, highlight |-> highlight]
PageNoTable == << >>
PageEmptyValue ==
    << << Cell(TRUE, << "Status" >>, None), Cell(FALSE, << SP >>, None) >> >>
PageAcme ==
    << << Cell(TRUE, << SP, "Name/Title", SP >>, None),
          Cell(FALSE, << "prefix", SP, "ACME" >>, Some(<< "ACME" >>)) >> >>
DetailPages == { PageNoTable, PageEmptyValue, PageAcme }

\* the a.ui-paginator-next element of page p: results pages before the last
\* have it enabled; the last page has it missing, disabled (class
\* ui-state-disabled) or, by a defect of the portal, enabled; page 0 is the
\* search form, which has no paginator and no result rows
NextControl(p) ==
    IF p = 0 THEN "missing" ELSE IF p < nPages THEN "enabled" ELSE lastControl

\* faulty variant: the selector without :not(.ui-state-disabled)
NextButtonFoundAnyState(p) == NextControl(p) \in {"enabled", "disabled"}

\* line 211: page.$("a.ui-paginator-next:not(.ui-state-disabled)") is not null
NextButtonFound(p) == NextControl(p) = "enabled"

\* ------------------------------------------------------------- the engine
EntryInFlight == entry.st \in {"nav", "search", "enqueue", "next"}

InFlight ==
    (IF EntryInFlight THEN 1 ELSE 0) + Cardinality({u \in URLs : detail[u] = "inflight"})

NonePending ==
    entry.st # "pending" /\ \A u \in URLs : detail[u] # "pending"

\* maxRequestsPerCrawl (line 249), tested before a request is taken
MaxPagesExceeded == MaxRequestsPerCrawl <= handledRequestsCount

\* faulty variant: no maxRequestsPerCrawl
CanStartNoCeiling == pc = "running" /\ InFlight < MaxConcurrency

\* a request may be taken from the queue
CanStart == pc = "running" /\ InFlight < MaxConcurrency /\ ~MaxPagesExceeded

\* faulty variant: crawler.run() not awaited
RunNotAwaited == pc = "running"

\* crawler.run() resolves (line 255): nothing running, and nothing left to
\* take or the ceiling reached
RunResolved == pc = "running" /\ InFlight = 0 /\ (NonePending \/ MaxPagesExceeded)

\* faulty variant: no request is retried
AfterErrorNoRetry(r) == [r EXCEPT !.st = "failed"]

\* faulty variant: a request is retried without limit
AfterErrorAlwaysRetry(r) == [r EXCEPT !.st = "pending"]

\* an error reached the engine from request r: reclaim it, or fail it and
\* call failedRequestHandler (lines 250-252)
AfterError(r) ==
    IF r.retry < MaxRequestRetries
    THEN [r EXCEPT !.st = "pending", !.retry = r.retry + 1]
    ELSE [r EXCEPT !.st = "failed"]

HandledAfterError(r) ==
    IF r.retry < MaxRequestRetries THEN handledRequestsCount ELSE handledRequestsCount + 1

\* faulty variant: a URL seen again is queued again
EnqueueLinksAgain(links) ==
    [u \in URLs |-> IF u \in links /\ detail[u] \in {"none", "handled", "failed"}
                    THEN "pending"
                    ELSE detail[u]]

\* the request queue's addRequests: one request per URL
EnqueueLinks(links) ==
    [u \in URLs |-> IF u \in links /\ detail[u] = "none" THEN "pending" ELSE detail[u]]

\* ------------------------------------------------------------------ Init
Init ==
    /\ pc = "start"
    /\ options \in RunOptions
    /\ formFilled = FALSE
    /\ results = << >>
    /\ output = None
    /\ writes = 0
    /\ entry = [st |-> "none", retry |-> 0, page |-> 0]
    /\ detail = [u \in URLs |-> "none"]
    /\ handledRequestsCount = 0
    /\ nPages \in 1..MaxPages
    /\ lastControl \in {"missing", "disabled", "enabled"}
    /\ visited = << >>
    /\ walkerRuns = 0
    /\ searchCalls = 0
    /\ nonRetryable = FALSE
    /\ extraction = [u \in URLs |-> "none"]
    /\ errorText = None
    /\ searchOutcome = "none"
    /\ form = None
    /\ rendered = [u \in URLs |-> None]

\* --------------------------------------------------------------- main, crawl
\* faulty variant: main's catch logs and lets the process end normally
CheckDateRangeThrowsExit0 ==
    /\ pc = "start"
    /\ ~checkDateRange(options)
    /\ pc' = "exit0"
    /\ UNCHANGED <<options, formFilled, results, output, writes, entry, detail,
                   handledRequestsCount, nPages, lastControl, visited, walkerRuns,
                   searchCalls, nonRetryable, extraction, errorText, searchOutcome,
                   form, rendered>>

\* line 190 throws; main's catch (lines 341-344) exits 1
CheckDateRangeThrows ==
    /\ pc = "start"
    /\ ~checkDateRange(options)
    /\ pc' = "exit1"
    /\ UNCHANGED <<options, formFilled, results, output, writes, entry, detail,
                   handledRequestsCount, nPages, lastControl, visited, walkerRuns, searchCalls,
                   nonRetryable, extraction, errorText, searchOutcome,
                   form, rendered>>

\* lines 190-255: validation passes, crawler.run([{ url: baseUrl }]) starts
CrawlerRun ==
    /\ pc = "start"
    /\ checkDateRange(options)
    /\ pc' = "running"
    /\ entry' = [st |-> "pending", retry |-> 0, page |-> 0]
    /\ UNCHANGED <<options, formFilled, results, output, writes, detail,
                   handledRequestsCount, nPages, lastControl, visited, walkerRuns, searchCalls,
                   nonRetryable, extraction, errorText, searchOutcome,
                   form, rendered>>

\* lines 255-265: run() resolved; write the file, return; main ends, exit 0
Flush ==
    /\ RunResolved
    /\ output' = Some(JSONStringify(results))
    /\ writes' = writes + 1
    /\ pc' = "exit0"
    /\ UNCHANGED <<options, formFilled, results, entry, detail,
                   handledRequestsCount, nPages, lastControl, visited, walkerRuns, searchCalls,
                   nonRetryable, extraction, errorText, searchOutcome,
                   form, rendered>>

\* ------------------------------------------------------- the default handler
\* the engine takes the entry request and navigates to baseUrl
StartEntry ==
    /\ CanStart
    /\ entry.st = "pending"
    /\ entry' = [entry EXCEPT !.st = "nav", !.page = 0]
    /\ visited' = << >>
    /\ UNCHANGED <<pc, options, formFilled, results, output, writes, detail,
                   handledRequestsCount, nPages, lastControl, walkerRuns, searchCalls,
                   nonRetryable, extraction, errorText, searchOutcome,
                   form, rendered>>

\* faulty variant: line 197 without && !this.formFilled
DefaultHandlerBeginAlwaysSearch ==
    /\ entry.st = "nav"
    /\ entry' = [entry EXCEPT !.st = "search"]
    /\ searchCalls' = searchCalls + 1
    /\ UNCHANGED <<pc, options, formFilled, results, output, writes, detail,
                   handledRequestsCount, nPages, lastControl, visited, walkerRuns,
                   nonRetryable, extraction, errorText, searchOutcome,
                   form, rendered>>

\* line 197: the request's URL is baseUrl, which includes
\* "/search/advanced-search"; so the test is !this.formFilled
DefaultHandlerBegin ==
    /\ entry.st = "nav"
    /\ IF ~formFilled
       THEN /\ entry' = [entry EXCEPT !.st = "search"]
            /\ searchCalls' = searchCalls + 1
            /\ UNCHANGED walkerRuns
       ELSE /\ entry' = [entry EXCEPT !.st = "enqueue"]
            /\ walkerRuns' = walkerRuns + 1
            /\ UNCHANGED searchCalls
    /\ UNCHANGED <<pc, options, formFilled, results, output, writes, detail,
                   handledRequestsCount, nPages, lastControl, visited,
                   nonRetryable, extraction, errorText, searchOutcome,
                   form, rendered>>

\* faulty variant: line 200 left out
ExecuteSearchReturnsNoFlag ==
    /\ entry.st = "search"
    /\ \E msg \in RunMessages :
         /\ ExecuteSearchOutcome(msg) = "Success"
         /\ errorText' = msg
         /\ searchOutcome' = "Success"
    /\ entry' = [entry EXCEPT !.st = "enqueue", !.page = 1]
    /\ walkerRuns' = walkerRuns + 1
    /\ UNCHANGED <<pc, options, formFilled, results, output, writes, detail,
                   handledRequestsCount, nPages, lastControl, visited, searchCalls,
                   nonRetryable, extraction,
                   form, rendered>>

\* lines 199-200: executeSearch returns; formFilled = true; the session is on
\* results page 1
ExecuteSearchReturns ==
    /\ entry.st = "search"
    /\ \E msg \in RunMessages :
         /\ ExecuteSearchOutcome(msg) = "Success"
         /\ errorText' = msg
         /\ searchOutcome' = "Success"
    /\ formFilled' = TRUE
    /\ entry' = [entry EXCEPT !.st = "enqueue", !.page = 1]
    /\ walkerRuns' = walkerRuns + 1
    /\ UNCHANGED <<pc, options, results, output, writes, detail,
                   handledRequestsCount, nPages, lastControl, visited, searchCalls,
                   nonRetryable, extraction,
                   form, rendered>>

\* faulty variant: a plain Error is thrown, which the engine retries
ExecuteSearchThrowsRetryable ==
    /\ entry.st = "search"
    /\ \E msg \in RunMessages :
         /\ ExecuteSearchOutcome(msg) # "Success"
         /\ errorText' = msg
         /\ searchOutcome' = ExecuteSearchOutcome(msg)
    /\ nonRetryable' = TRUE
    /\ entry' = IF entry.retry < MaxRequestRetries
                THEN [entry EXCEPT !.st = "pending", !.retry = entry.retry + 1]
                ELSE [entry EXCEPT !.st = "failed"]
    /\ handledRequestsCount' =
           IF entry.retry < MaxRequestRetries THEN handledRequestsCount
           ELSE handledRequestsCount + 1
    /\ UNCHANGED <<pc, options, formFilled, results, output, writes, detail,
                   nPages, lastControl, visited, walkerRuns, searchCalls, extraction,
                   form, rendered>>

\* lines 129-137: executeSearch throws NonRetryableError; the engine fails the
\* request without a retry
ExecuteSearchThrowsNonRetryable ==
    /\ entry.st = "search"
    /\ \E msg \in RunMessages :
         /\ ExecuteSearchOutcome(msg) # "Success"
         /\ errorText' = msg
         /\ searchOutcome' = ExecuteSearchOutcome(msg)
    /\ nonRetryable' = TRUE
    /\ entry' = [entry EXCEPT !.st = "failed"]
    /\ handledRequestsCount' = handledRequestsCount + 1
    /\ UNCHANGED <<pc, options, formFilled, results, output, writes, detail,
                   nPages, lastControl, visited, walkerRuns, searchCalls, extraction,
                   form, rendered>>

\* the navigation fails, an awaited page call throws (a bounded wait runs out,
\* lines 103-121, 206-215), or the handler exceeds requestHandlerTimeoutSecs
\* (line 248): the error reaches the engine
EntryFails ==
    /\ EntryInFlight
    /\ entry' = AfterError(entry)
    /\ handledRequestsCount' = HandledAfterError(entry)
    /\ UNCHANGED <<pc, options, formFilled, results, output, writes, detail,
                   nPages, lastControl, visited, walkerRuns, searchCalls,
                   nonRetryable, extraction, errorText, searchOutcome,
                   form, rendered>>

\* lines 206-209: enqueueLinks on the current page
WalkEnqueue ==
    /\ entry.st = "enqueue"
    /\ \E links \in SUBSET URLs :
         /\ entry.page = 0 => links = {}
         /\ detail' = EnqueueLinks(links)
    /\ visited' = IF Len(visited) <= MaxPages THEN Append(visited, entry.page) ELSE visited
    /\ entry' = [entry EXCEPT !.st = "next"]
    /\ UNCHANGED <<pc, options, formFilled, results, output, writes,
                   handledRequestsCount, nPages, lastControl, walkerRuns, searchCalls,
                   nonRetryable, extraction, errorText, searchOutcome,
                   form, rendered>>

\* faulty variant: a while loop, the next control is looked for on the new
\* page before its links are taken
WalkClickNextNoEnqueue ==
    /\ entry.st = "next"
    /\ NextButtonFound(entry.page)
    /\ entry' = [entry EXCEPT !.page = IF entry.page < nPages THEN entry.page + 1
                                       ELSE entry.page]
    /\ UNCHANGED <<pc, options, formFilled, results, output, writes, detail,
                   handledRequestsCount, nPages, lastControl, visited, walkerRuns, searchCalls,
                   nonRetryable, extraction, errorText, searchOutcome,
                   form, rendered>>

\* lines 211-215: the next control is there; click it and wait
WalkClickNext ==
    /\ entry.st = "next"
    /\ NextButtonFound(entry.page)
    /\ entry' = [entry EXCEPT !.st = "enqueue",
                              !.page = IF entry.page < nPages THEN entry.page + 1
                                       ELSE entry.page]
    /\ UNCHANGED <<pc, options, formFilled, results, output, writes, detail,
                   handledRequestsCount, nPages, lastControl, visited, walkerRuns, searchCalls,
                   nonRetryable, extraction, errorText, searchOutcome,
                   form, rendered>>

\* lines 216-220: no next control; the loop ends and the handler returns
WalkStop ==
    /\ entry.st = "next"
    /\ ~NextButtonFound(entry.page)
    /\ entry' = [entry EXCEPT !.st = "handled"]
    /\ handledRequestsCount' = handledRequestsCount + 1
    /\ UNCHANGED <<pc, options, formFilled, results, output, writes, detail,
                   nPages, lastControl, visited, walkerRuns, searchCalls,
                   nonRetryable, extraction, errorText, searchOutcome,
                   form, rendered>>

\* ------------------------------------------------------ the "detail" handler
\* the engine takes a detail request and navigates to its URL
StartDetail(u) ==
    /\ CanStart
    /\ detail[u] = "pending"
    /\ detail' = [detail EXCEPT ![u] = "inflight"]
    /\ UNCHANGED <<pc, options, formFilled, results, output, writes, entry,
                   handledRequestsCount, nPages, lastControl, visited, walkerRuns, searchCalls,
                   nonRetryable, extraction, errorText, searchOutcome,
                   form, rendered>>

\* the navigation fails before the handler is called (navigationTimeoutSecs,
\* line 247) on every attempt the engine makes: the request ends failed and
\* is given to failedRequestHandler (lines 250-252)
DetailNavigationFails(u) ==
    /\ detail[u] = "inflight"
    /\ detail' = [detail EXCEPT ![u] = "failed"]
    /\ handledRequestsCount' = handledRequestsCount + 1
    /\ UNCHANGED <<pc, options, formFilled, results, output, writes, entry,
                   nPages, lastControl, visited, walkerRuns, searchCalls,
                   nonRetryable, extraction, errorText, searchOutcome,
                   form, rendered>>

\* faulty variant: the catch logs and rethrows
DetailHandlerRethrows(u) ==
    /\ detail[u] = "inflight"
    /\ detail' = [detail EXCEPT ![u] = "failed"]
    /\ extraction' = [extraction EXCEPT ![u] = "caught"]
    /\ handledRequestsCount' = handledRequestsCount + 1
    /\ UNCHANGED <<pc, options, formFilled, results, output, writes, entry,
                   nPages, lastControl, visited, walkerRuns, searchCalls,
                   nonRetryable, errorText, searchOutcome,
                   form, rendered>>

\* lines 226-231, 239-241: a wait or the extraction throws; the catch logs it
\* and the handler returns
DetailHandlerCatches(u) ==
    /\ detail[u] = "inflight"
    /\ detail' = [detail EXCEPT ![u] = "handled"]
    /\ extraction' = [extraction EXCEPT ![u] = "caught"]
    /\ handledRequestsCount' = handledRequestsCount + 1
    /\ UNCHANGED <<pc, options, formFilled, results, output, writes, entry,
                   nPages, lastControl, visited, walkerRuns, searchCalls,
                   nonRetryable, errorText, searchOutcome,
                   form, rendered>>

\* faulty variant: the test of line 233 left out
PushAlways(data) == Append(results, data)

\* faulty variant: unshift for push
PushInFront(data) == IF KeyCount(data) # 0 THEN << data >> \o results ELSE results

\* lines 233-238
PushIfData(data) == IF KeyCount(data) # 0 THEN Append(results, data) ELSE results

\* the pages getDetailInformation may find at u: the one fixed for u, else
\* any of DetailPages
RenderedPages(u) == IF rendered[u] = None THEN DetailPages ELSE { rendered[u][1] }

\* lines 227-238: the waits pass, the page is read, the handler returns
DetailHandlerExtracts(u) ==
    /\ detail[u] = "inflight"
    /\ \E page \in RenderedPages(u) :
         LET data == getDetailInformation(page) IN
         /\ results' = PushIfData(data)
         /\ extraction' = [extraction EXCEPT
                             ![u] = IF KeyCount(data) # 0 THEN "pushed" ELSE "empty"]
    /\ detail' = [detail EXCEPT ![u] = "handled"]
    /\ handledRequestsCount' = handledRequestsCount + 1
    /\ UNCHANGED <<pc, options, formFilled, output, writes, entry,
                   nPages, lastControl, visited, walkerRuns, searchCalls,
                   nonRetryable, errorText, searchOutcome,
                   form, rendered>>

\* ------------------------------------------------------------------ Next
Next ==
    \/ CheckDateRangeThrows
    \/ CrawlerRun
    \/ Flush
    \/ StartEntry
    \/ DefaultHandlerBegin
    \/ ExecuteSearchReturns
    \/ ExecuteSearchThrowsNonRetryable
    \/ EntryFails
    \/ WalkEnqueue
    \/ WalkClickNext
    \/ WalkStop
    \/ \E u \in URLs : StartDetail(u)
    \/ \E u \in URLs : DetailNavigationFails(u)
    \/ \E u \in URLs : DetailHandlerCatches(u)
    \/ \E u \in URLs : DetailHandlerExtracts(u)

Spec == Init /\ [][Next]_vars

\* the event loop runs a continuation that is ready and the engine takes a
\* request it may take; a handler that never returns is ended by
\* requestHandlerTimeoutSecs (line 248)
FairSpec == Spec /\ WF_vars(Next) /\ WF_vars(EntryFails)

\* ---------------------------------------------- executeSearch on its own
\* the messages a response may show: up to MaxParts of these parts in a row
MessageParts ==
    { MsgNoResults, MsgTooMany, << SP >>, << "x" >>,
      << "no", SP >>, << "Results", SP, "found" >> }

RECURSIVE Flatten(_)
Flatten(ps) == IF ps = << >> THEN << >> ELSE Head(ps) \o Flatten(Tail(ps))

Messages ==
    {None} \cup
    { Some(Flatten(ps)) : ps \in UNION { [1..n -> MessageParts] : n \in 0..MaxParts } }

InitSearch ==
    /\ pc = "running"
    /\ options = [startDate |-> <<2024, 1, 1>>, endDate |-> <<2024, 12, 31>>]
    /\ formFilled = FALSE
    /\ results = << >>
    /\ output = None
    /\ writes = 0
    /\ entry = [st |-> "search", retry |-> 0, page |-> 0]
    /\ detail = [u \in URLs |-> "none"]
    /\ handledRequestsCount = 0
    /\ nPages = 1
    /\ lastControl = "missing"
    /\ visited = << >>
    /\ walkerRuns = 0
    /\ searchCalls = 1
    /\ nonRetryable = FALSE
    /\ extraction = [u \in URLs |-> "none"]
    /\ errorText \in Messages
    /\ searchOutcome = "none"
    /\ form = None
    /\ rendered = [u \in URLs |-> None]

\* lines 123-137 on the message the response shows
SearchClassifies ==
    /\ searchOutcome = "none"
    /\ searchOutcome' = ExecuteSearchOutcome(errorText)
    /\ UNCHANGED <<pc, options, formFilled, results, output, writes, entry, detail,
                   handledRequestsCount, nPages, lastControl, visited, walkerRuns,
                   searchCalls, nonRetryable, extraction, errorText,
                   form, rendered>>

NextSearch == SearchClassifies

SpecSearch == InitSearch /\ [][NextSearch]_vars

\* --------------------------------------------- checkDateRange on its own
\* the date strings parseArgs lets through (line 325: four, two and two
\* digits): years, months and days around the calendar's limits
DateStrings ==
    { << y, m, d >> : y \in {2023, 2024}, m \in {0, 1, 2, 12, 13},
                      d \in {0, 1, 28, 29, 30, 31, 32} }

InitDates ==
    /\ pc = "start"
    /\ options \in [startDate : DateStrings, endDate : DateStrings]
    /\ formFilled = FALSE
    /\ results = << >>
    /\ output = None
    /\ writes = 0
    /\ entry = [st |-> "none", retry |-> 0, page |-> 0]
    /\ detail = [u \in URLs |-> "none"]
    /\ handledRequestsCount = 0
    /\ nPages = 1
    /\ lastControl = "missing"
    /\ visited = << >>
    /\ walkerRuns = 0
    /\ searchCalls = 0
    /\ nonRetryable = FALSE
    /\ extraction = [u \in URLs |-> "none"]
    /\ errorText = None
    /\ searchOutcome = "none"
    /\ form = None
    /\ rendered = [u \in URLs |-> None]

\* lines 190-255 up to the start of the engine
NextDates == CheckDateRangeThrows \/ CrawlerRun

SpecDates == InitDates /\ [][NextDates]_vars

\* ------------------------------------- executeSearch's form steps on their own
\* the checkboxes of the forms explored: the three targets, one that is no
\* target, and one without an id attribute
FormIds ==
    << Some(targetCheckboxes[1]), Some(targetCheckboxes[2]), Some(targetCheckboxes[3]),
       Some("collections_criteria_advanced_0"), None >>

\* what a date input may hold when the page is loaded: nothing, or a date
DateTexts == { << >>, << 2020, 5, 5 >> }

\* every checked/unchecked assignment, with every choice of the checkboxes
\* whose proxy element is missing
InitialForms ==
    { Form([k \in 1..Len(FormIds) |-> Checkbox(FormIds[k], c[k], p[k])], from, to) :
        c \in [1..Len(FormIds) -> BOOLEAN], p \in [1..Len(FormIds) -> BOOLEAN],
        from \in DateTexts, to \in DateTexts }

InitForm ==
    /\ pc = "running"
    /\ options \in { o \in RunOptions : checkDateRange(o) }
    /\ formFilled = FALSE
    /\ results = << >>
    /\ output = None
    /\ writes = 0
    /\ entry = [st |-> "search", retry |-> 0, page |-> 0]
    /\ detail = [u \in URLs |-> "none"]
    /\ handledRequestsCount = 0
    /\ nPages = 1
    /\ lastControl = "missing"
    /\ visited = << >>
    /\ walkerRuns = 0
    /\ searchCalls = 1
    /\ nonRetryable = FALSE
    /\ extraction = [u \in URLs |-> "none"]
    /\ errorText = None
    /\ searchOutcome = "none"
    /\ form \in InitialForms
    /\ rendered = [u \in URLs |-> None]

\* a form step changes the form only
FormStep(f) ==
    /\ entry.st = "search"
    /\ form' = f
    /\ UNCHANGED <<pc, options, formFilled, results, output, writes, entry, detail,
                   handledRequestsCount, nPages, lastControl, visited, walkerRuns,
                   searchCalls, nonRetryable, extraction, errorText, searchOutcome,
                   rendered>>

\* lines 64-83, one turn of the loop that goes on to the next checkbox: the
\* checkbox is skipped (line 66), is as it should be (line 71), is clicked
\* (line 79), or has no proxy and the test of line 78 skips the click
ConfigureCheckboxStep ==
    /\ form.step = "checkboxes"
    /\ FormStep([form EXCEPT
                   !.boxes[form.i] = ClickIfNeeded(form.boxes[form.i]),
                   !.i = form.i + 1,
                   !.step = IF form.i = Len(form.boxes) THEN "date_from"
                            ELSE "checkboxes"])

\* lines 72-79 for a checkbox that must change and has no proxy: the promise
\* of evaluateHandle resolves to a handle object also when the function gave
\* undefined; the handle of a value that is no element has no click method, so
\* where the test of line 78 lets it through, line 79 throws
ConfigureCheckboxThrows ==
    /\ form.step = "checkboxes"
    /\ NeedsClick(form.boxes[form.i])
    /\ ~form.boxes[form.i].proxy
    /\ FormStep([form EXCEPT !.step = "threw"])

\* line 108
InputDateFrom ==
    /\ form.step = "date_from"
    /\ FormStep([form EXCEPT
                   !.date_from = inputDateValue(form.date_from, DateFromValue(options)),
                   !.step = "date_to"])

\* line 109
InputDateTo ==
    /\ form.step = "date_to"
    /\ FormStep([form EXCEPT
                   !.date_to = inputDateValue(form.date_to, DateToValue(options)),
                   !.step = "submit"])

\* lines 111-114
SubmitClick ==
    /\ form.step = "submit"
    /\ FormStep(ClickSubmit(form))

NextForm ==
    \/ ConfigureCheckboxStep
    \/ ConfigureCheckboxThrows
    \/ InputDateFrom
    \/ InputDateTo
    \/ SubmitClick

SpecForm == InitForm /\ [][NextForm]_vars

\* --------------------------------------- getDetailInformation on its own
\* label texts: up to MaxParts of these parts in a row
LabelParts ==
    { << "Name/Title" >>, << "Status" >>, << "Application", SP, "date" >>,
      << "Application", SP, "number" >>, << "Application" >>, << "date" >>,
      << "status" >>, << SP >>, << "x" >> }

LabelTexts ==
    { Flatten(ps) : ps \in UNION { [1..n -> LabelParts] : n \in 0..MaxParts } }

\* value cells: empty, blank, plain text, a highlight span, a blank span
ValueCells ==
    { Cell(FALSE, << >>, None),
      Cell(FALSE, << SP, SP >>, None),
      Cell(FALSE, << SP, "v", SP, SP, "w" >>, None),
      Cell(FALSE, << "t", SP, "h" >>, Some(<< SP, "h" >>)),
      Cell(FALSE, << "t" >>, Some(<< SP >>)) }

\* a details table of one row: a label cell with class detail-title and its
\* value cell
LabelledPages ==
    { << << Cell(TRUE, label, None), value >> >> : label \in LabelTexts, value \in ValueCells }

InitExtract ==
    /\ pc = "running"
    /\ options \in { o \in RunOptions : checkDateRange(o) }
    /\ formFilled = TRUE
    /\ results = << >>
    /\ output = None
    /\ writes = 0
    /\ entry = [st |-> "handled", retry |-> 0, page |-> 1]
    /\ detail = [u \in URLs |-> IF u = 1 THEN "inflight" ELSE "none"]
    /\ handledRequestsCount = 1
    /\ nPages = 1
    /\ lastControl = "missing"
    /\ visited = << 1 >>
    /\ walkerRuns = 1
    /\ searchCalls = 1
    /\ nonRetryable = FALSE
    /\ extraction = [u \in URLs |-> "none"]
    /\ errorText = None
    /\ searchOutcome = "Success"
    /\ form = None
    /\ \E page \in LabelledPages :
         rendered = [u \in URLs |-> IF u = 1 THEN Some(page) ELSE None]

\* the detail handler on the page of one labelled row
ExtractLabelled == DetailHandlerExtracts(1)

NextExtract == ExtractLabelled

SpecExtract == InitExtract /\ [][NextExtract]_vars

\* ================================================================== claims

\* C1: whenever a detail job exists (queued, being handled or finished), the
\* entry job's search step has completed successfully: formFilled is true,
\* executeSearch returned, and the walker was entered.
C1_DetailOnlyAfterSearch ==
    (\E u \in URLs : detail[u] # "none") =>
        (formFilled /\ searchOutcome = "Success" /\ walkerRuns >= 1)

C1_Witness ==
    /\ \E u \in URLs : detail[u] = "inflight"
    /\ \E u \in URLs : detail[u] = "pending"
    /\ formFilled

\* C2: once executeSearch has thrown NonRetryableError the entry request is
\* failed for good, formFilled stays false, the walker has not run and never
\* runs, no detail job exists or was handled, and executeSearch is not called
\* again.
C2_NonRetryableAborts ==
    /\ [](nonRetryable =>
            /\ entry.st = "failed"
            /\ ~formFilled
            /\ walkerRuns = 0
            /\ visited = << >>
            /\ \A u \in URLs : detail[u] = "none" /\ extraction[u] = "none"
            /\ results = << >>)
    /\ [][nonRetryable => (nonRetryable' /\ searchCalls' = searchCalls)]_vars

C2_Witness ==
    /\ nonRetryable
    /\ entry.retry = MaxRequestRetries
    /\ searchOutcome = "TooManyResults"
    /\ pc = "exit0"

\* C3 (as stated): a run in which checkDateRange fails, or in which
\* executeSearch threw NonRetryableError, never ends with exit code 0.
C3_Original ==
    (~checkDateRange(options) \/ nonRetryable) => pc # "exit0"

\* C3 (amended): a checkDateRange failure reaches main's catch: the run can
\* only end with exit code 1, before anything was dispatched or written, and
\* only such runs exit 1.  A NonRetryableError stays inside the engine: run()
\* resolves, crawl() writes the file, and the run can only end with exit
\* code 0.
C3_ConfigErrorExits1SearchErrorExits0 ==
    /\ ~checkDateRange(options) =>
            pc \in {"start", "exit1"} /\ entry.st = "none" /\ writes = 0
    /\ pc = "exit1" => ~checkDateRange(options)
    /\ nonRetryable => pc \in {"running", "exit0"}
    /\ ~(ENABLED Next) =>
            pc = (IF checkDateRange(options) THEN "exit0" ELSE "exit1")

C3_Witness ==
    /\ nonRetryable
    /\ searchOutcome = "NoResults"
    /\ pc = "exit0"
    /\ output = Some(<< >>)

\* C4 (as stated, its last part): when the run has ended after a detail
\* handler caught a failure, no detail job is left unprocessed in the queue.
C4_Original ==
    (pc = "exit0" /\ \E u \in URLs : extraction[u] = "caught") =>
        \A v \in URLs : detail[v] # "pending"

\* C4 (amended): a failure caught in the detail handler of u ends that request
\* as handled (the engine sees no error), changes neither results nor
\* formFilled nor any other request; a pending detail job stays in the queue
\* until the engine takes it, and the run ends with one still pending only
\* when the request ceiling has been reached.
C4_DetailFailureIsContained ==
    /\ [][\A u \in URLs :
            (extraction[u] = "none" /\ extraction'[u] = "caught") =>
                /\ results' = results
                /\ formFilled' = formFilled
                /\ detail'[u] = "handled"
                /\ \A v \in URLs \ {u} : detail'[v] = detail[v]
                /\ entry' = entry
                /\ pc' = pc]_vars
    /\ [][\A v \in URLs :
            detail[v] = "pending" => detail'[v] \in {"pending", "inflight"}]_vars
    /\ [](\A v \in URLs :
            (detail[v] = "pending" /\ ~(ENABLED Next)) =>
                (pc = "exit0" /\ MaxPagesExceeded))

C4_Witness ==
    /\ \E u, v \in URLs :
         /\ extraction[u] = "caught"
         /\ extraction[v] = "pushed"
         /\ detail[u] = "handled"
    /\ pc = "exit0"

\* case-insensitive containment of a phrase in a message, position by position
ContainsIgnoringCase(t, phrase) ==
    \E i \in 1..Len(t) :
        /\ i + Len(phrase) - 1 <= Len(t)
        /\ \A k \in 1..Len(phrase) : LowerToken(t[i + k - 1]) = phrase[k]

\* C5: the search step ends NoResults when the message contains "no results
\* found", else TooManyResults when it contains "too many results found",
\* else (any other message, or none) it succeeds; case is ignored.
C5_Classification ==
    searchOutcome # "none" =>
        searchOutcome =
            IF errorText # None /\ ContainsIgnoringCase(errorText[1], NoResultsPhrase)
            THEN "NoResults"
            ELSE IF errorText # None /\ ContainsIgnoringCase(errorText[1], TooManyPhrase)
            THEN "TooManyResults"
            ELSE "Success"

C5_Witness ==
    /\ errorText # None
    /\ ContainsIgnoringCase(errorText[1], NoResultsPhrase)
    /\ ContainsIgnoringCase(errorText[1], TooManyPhrase)
    /\ searchOutcome = "NoResults"

\* C6: on a listing of nPages pages whose last page has no enabled next
\* control (missing or disabled), a walker started on results page 1 takes the
\* links of pages 1, 2, ... in order, each once, and when the handler returns
\* it has taken exactly pages 1..nPages.
C6_WalkerVisitsEachPageOnce ==
    (lastControl # "enabled" /\ entry.page >= 1) =>
        /\ visited = [i \in 1..Len(visited) |-> i]
        /\ Len(visited) <= nPages
        /\ entry.st = "enqueue" => entry.page = Len(visited) + 1
        /\ entry.st = "next" => entry.page = Len(visited)
        /\ entry.st = "handled" => Len(visited) = nPages

C6_Witness ==
    /\ entry.st = "handled"
    /\ lastControl = "disabled"
    /\ nPages = MaxPages
    /\ visited = [i \in 1..MaxPages |-> i]

\* C7 (as stated, its last part): the number of requests processed never
\* exceeds the ceiling.
C7_Original == handledRequestsCount <= MaxRequestsPerCrawl

\* C7 (amended): every run ends, also when the last page always shows an
\* enabled next control (the looping handler is ended by the handler timeout,
\* and its retries are bounded); no request is taken once the ceiling of
\* processed requests is reached, and the number processed exceeds the ceiling
\* by no more than the requests that were in flight with the one reaching it.
C7_RunEndsCeilingStopsTaking ==
    /\ <>(pc \in {"exit0", "exit1"})
    /\ [][InFlight' > InFlight => handledRequestsCount < MaxRequestsPerCrawl]_vars
    /\ [](handledRequestsCount <= MaxRequestsPerCrawl + MaxConcurrency - 1)

C7_Witness ==
    /\ lastControl = "enabled"
    /\ formFilled
    /\ entry.st = "failed"
    /\ Len(visited) > nPages
    /\ handledRequestsCount > MaxRequestsPerCrawl
    /\ pc = "exit0"

\* C8 (as stated): every record of the collection has a field whose value is
\* a non-empty string.
C8_Original ==
    \A i \in 1..Len(results) :
        \E f \in DOMAIN results[i] : results[i][f] # None /\ results[i][f] # Some(<< >>)

\* C8 (amended): every record of the collection has at least one field, whose
\* value is null or a non-empty string; a page whose extraction yields no
\* field at all is not appended.
C8_RecordsHaveAField ==
    /\ \A i \in 1..Len(results) :
         /\ DOMAIN results[i] # {}
         /\ \A f \in DOMAIN results[i] : results[i][f] # Some(<< >>)
    /\ Len(results) = Cardinality({u \in URLs : extraction[u] = "pushed"})

C8_Witness ==
    /\ \E i \in 1..Len(results) : \A f \in DOMAIN results[i] : results[i][f] = None
    /\ \E u \in URLs : extraction[u] = "empty"

\* C9 (as stated, its first part): when the run has ended, every detail job
\* that was enqueued has been consumed by the detail handler.
C9_Original ==
    pc = "exit0" => \A u \in URLs : detail[u] \in {"none", "handled"}

\* C9 (amended): a detail job is consumed by the handler at most once (not at
\* all when its navigation fails or the ceiling ends the run first) and
\* appends at most one record; no append is lost: the collection always holds
\* exactly one record per detail job whose extraction ran and gave a field.
C9_OneRecordPerExtractedJob ==
    /\ Len(results) = Cardinality({u \in URLs : extraction[u] = "pushed"})
    /\ \A u \in URLs :
         /\ extraction[u] # "none" <=> detail[u] = "handled"
         /\ detail[u] = "pending" /\ pc = "exit0" => MaxPagesExceeded

C9_Witness ==
    /\ pc = "exit0"
    /\ nPages = MaxPages
    /\ \A u \in URLs : extraction[u] = "pushed"
    /\ Len(results) = MaxUrls

\* C10 (as stated, in part): the file is written only when no job is pending
\* or in flight.
C10_Original == writes > 0 => (NonePending /\ InFlight = 0)

\* C10 (amended): a run that passes validation cannot end without having
\* written the file, and writes it exactly once, after run() has resolved: no job is in flight, and none is pending unless
\* the request ceiling was reached; this includes the run whose search step
\* threw NonRetryableError; the content is the collection at that moment.
C10_FlushOnceAfterRun ==
    /\ [](writes <= 1 /\ (writes = 1 <=> pc = "exit0"))
    /\ [](writes = 1 =>
            /\ InFlight = 0
            /\ NonePending \/ MaxPagesExceeded
            /\ output # None
            /\ Len(output[1]) = Len(results)
            /\ \A i \in 1..Len(results) :
                 /\ \A f \in DOMAIN results[i] : << f, results[i][f] >> \in output[1][i]
                 /\ Cardinality(output[1][i]) = Cardinality(DOMAIN results[i]))
    /\ []((checkDateRange(options) /\ ~(ENABLED Next)) => writes = 1)

C10_Witness ==
    /\ writes = 1
    /\ Len(results) = 2
    /\ results[1] # results[2]
    /\ output # None
    /\ Len(output[1]) = 2

\* the Gregorian calendar: the lengths of the months of year y
MonthLengths(y) ==
    << 31, IF y % 400 = 0 \/ (y % 4 = 0 /\ y % 100 # 0) THEN 29 ELSE 28,
       31, 30, 31, 30, 31, 31, 30, 31, 30, 31 >>

CalendarDate(d) ==
    /\ d[2] >= 1 /\ d[2] <= 12
    /\ d[3] >= 1 /\ d[3] <= MonthLengths(d[1])[d[2]]

\* a is not after b: year, then month, then day
NotAfter(a, b) ==
    \/ a[1] < b[1]
    \/ a[1] = b[1] /\ a[2] < b[2]
    \/ a[1] = b[1] /\ a[2] = b[2] /\ a[3] <= b[3]

\* C11: when a date is no calendar date or the start date is after the end
\* date, crawl() throws before anything else: the run goes to exit 1, no
\* request exists, formFilled and the collection keep their initial values and
\* nothing is written; when both are calendar dates and start <= end,
\* validation passes and the entry request is queued.
C11_ValidationGatesDispatch ==
    LET ok == /\ CalendarDate(options.startDate)
              /\ CalendarDate(options.endDate)
              /\ NotAfter(options.startDate, options.endDate)
    IN  /\ pc # "start" => pc = (IF ok THEN "running" ELSE "exit1")
        /\ pc = "running" => entry = [st |-> "pending", retry |-> 0, page |-> 0]
        /\ ~ok =>
              /\ entry.st = "none"
              /\ \A u \in URLs : detail[u] = "none"
              /\ formFilled = FALSE
              /\ results = << >>
              /\ output = None
              /\ writes = 0

C11_Witness ==
    /\ pc = "exit1"
    /\ options.startDate = << 2024, 2, 29 >>
    /\ options.endDate = << 2024, 2, 28 >>

\* C12 (as stated): in a run where an attempt of the search step was ended
\* by an error other than NonRetryableError (a bounded wait ran out), which is
\* the only way executeSearch gets called a second time, the walker never runs
\* and no detail job exists.
C12_Original ==
    searchCalls >= 2 => (walkerRuns = 0 /\ \A u \in URLs : detail[u] = "none")

\* C12 (amended): a bounded wait that runs out in the search step ends that
\* attempt only: formFilled stays false, nothing is appended or queued, and
\* the engine queues the entry request again while it has retries left, so a
\* later attempt may search, paginate and queue detail jobs.  Only when the
\* retries are used up is the entry request failed; then no pagination or
\* detail processing has happened, and the run still ends with the file
\* written and exit code 0.  The same timeout in a detail job is caught: the
\* request ends handled and nothing else changes.
C12_SearchTimeoutIsRetried ==
    /\ [][(entry.st = "search" /\ entry'.st \in {"pending", "failed"} /\ ~nonRetryable') =>
            /\ formFilled' = FALSE
            /\ results' = results
            /\ detail' = detail
            /\ pc' = pc
            /\ entry'.st = (IF entry.retry < MaxRequestRetries THEN "pending" ELSE "failed")
            /\ entry'.retry = (IF entry.retry < MaxRequestRetries THEN entry.retry + 1
                               ELSE entry.retry)]_vars
    /\ []((entry.st = "failed" /\ ~formFilled) =>
            /\ walkerRuns = 0
            /\ results = << >>
            /\ \A u \in URLs : detail[u] = "none")
    /\ []((entry.st = "failed" /\ ~(ENABLED Next)) => (pc = "exit0" /\ writes = 1))
    /\ [][\A u \in URLs :
            (detail[u] = "inflight" /\ extraction'[u] = "caught") =>
                /\ detail' = [detail EXCEPT ![u] = "handled"]
                /\ results' = results
                /\ entry' = entry]_vars

C12_Witness ==
    /\ searchCalls = 2
    /\ formFilled
    /\ \E u \in URLs : extraction[u] = "pushed"
    /\ pc = "exit0"

\* the configurator has gone through all checkboxes
ConfiguratorFinished == form.step \in {"date_from", "date_to", "submit", "submitted"}

C14_SwappedDatesAtSubmit ==
    /\ form.step \in {"date_to", "submit", "submitted"} =>
          form.date_from.text = options.endDate
    /\ form.step \in {"submit", "submitted"} =>
          form.date_to.text = options.startDate
    /\ form.step \in {"checkboxes", "date_from", "threw"} =>
          form.date_from.text = form.loaded.date_from
    /\ form.step \in {"checkboxes", "date_from", "date_to", "threw"} =>
          form.date_to.text = form.loaded.date_to
    /\ form.step = "submitted" <=> form.sent # None
    /\ form.sent # None =>
          form.sent[1] = [date_from |-> options.endDate, date_to |-> options.startDate]

C14_Witness ==
    /\ form.step = "submitted"
    /\ form.loaded.date_from # << >>
    /\ form.loaded.date_to # << >>
    /\ options.startDate # options.endDate
    /\ form.sent = Some([date_from |-> options.endDate, date_to |-> options.startDate])

\* C15: the walker moves from page N to page N+1 only after it has taken the
\* links of page N, and takes the links of a page as its first step on that
\* page; taking links only adds requests to the queue.  On a listing whose
\* last page has no enabled next control, when the walker looks for the next
\* control it has taken the links of pages 1..N once each, and when the handler
\* returns these are all the pages, the last one included.
C15_EnqueueBeforeNextPage ==
    /\ [][(entry.page >= 1 /\ entry'.page > entry.page) =>
            /\ entry.st = "next"
            /\ visited # << >>
            /\ visited[Len(visited)] = entry.page
            /\ entry'.page = entry.page + 1
            /\ entry'.st = "enqueue"
            /\ visited' = visited]_vars
    /\ [][(visited' # visited /\ visited' # << >>) =>
            /\ entry.st = "enqueue"
            /\ entry' = [entry EXCEPT !.st = "next"]
            /\ visited' = Append(visited, entry.page)
            /\ \A u \in URLs :
                 detail'[u] # detail[u] => (detail[u] = "none" /\ detail'[u] = "pending")]_vars
    /\ []((lastControl # "enabled" /\ entry.page >= 1) =>
            /\ entry.st \in {"next", "handled"} =>
                  visited = [i \in 1..entry.page |-> i]
            /\ entry.st = "handled" => entry.page = nPages)

C15_Witness ==
    /\ entry.st = "handled"
    /\ lastControl = "missing"
    /\ nPages = MaxPages
    /\ Len(visited) = MaxPages
    /\ \A u \in URLs : detail[u] # "none"

\* C16: every step leaves the collection as it is or appends one record at
\* its end, keeping the records before it in place and unchanged; a step that
\* appends is the detail handler of some URL returning after an extraction.
C16_AppendOnly ==
    [][\/ results' = results
       \/ /\ Len(results') = Len(results) + 1
          /\ SubSeq(results', 1, Len(results)) = results
          /\ \E u \in URLs :
               /\ detail[u] = "inflight"
               /\ detail'[u] = "handled"
               /\ extraction[u] = "none"
               /\ extraction'[u] = "pushed"
               /\ \E page \in DetailPages :
                    results'[Len(results')] = getDetailInformation(page)]_vars

C16_Witness ==
    /\ Len(results) = 2
    /\ results[1] # results[2]
    /\ pc = "running"

\* C17 (as stated): every run that passes validation reaches a state where no
\* job is pending or in flight and the collection has been written.
C17_Original ==
    checkDateRange(options) ~> (writes = 1 /\ NonePending /\ InFlight = 0)

\* C17 (amended): every run that passes validation ends: it reaches exit 0
\* with the file written once, holding the collection as it then is, whatever
\* the jobs did (handled, caught, failed after retries, timed out); at that
\* point no job is in flight, and none is pending unless the ceiling of
\* processed requests was reached; nothing changes afterwards.  (The options
\* of a run never change, so the first line speaks of the runs that pass
\* validation.)
C17_RunCompletes ==
    /\ <>(\/ ~checkDateRange(options)
          \/ (pc = "exit0" /\ writes = 1 /\ output = Some(JSONStringify(results))))
    /\ [](pc = "exit0" => (InFlight = 0 /\ (NonePending \/ MaxPagesExceeded)))
    /\ [][pc = "exit0" => UNCHANGED vars]_vars

C17_Witness ==
    /\ pc = "exit0"
    /\ \E u \in URLs : extraction[u] = "caught"
    /\ \E u \in URLs : detail[u] = "failed"
    /\ entry.st = "handled"
    /\ entry.retry >= 1

\* phrase occurs in text t at some position
OccursIn(t, phrase) ==
    \E i \in 1..Len(t) :
        /\ i + Len(phrase) - 1 <= Len(t)
        /\ \A j \in 1..Len(phrase) : t[i + j - 1] = phrase[j]

\* the text holds nothing but whitespace
Blank(t) == \A i \in 1..Len(t) : t[i] = SP

\* C18: for a row whose label cell holds a label text and whose value cell
\* holds a value, the record gets exactly one field, that of the first entry
\* of the table (in table order) whose phrase occurs in the label text
\* (trimmed, whitespace runs collapsed), whatever other entries also occur and
\* wherever in the text; no field when no phrase occurs; and the field is
\* null exactly when neither the highlight span nor the cell holds anything
\* but whitespace.
C18_FirstMatchWins ==
    extraction[1] # "none" =>
        LET row == rendered[1][1][1]
            label == CollapseSpaces(Trim(row[1].text))
            value == row[2]
            matches == { k \in 1..Len(fieldMappings) : OccursIn(label, fieldMappings[k].label) }
            empty == /\ Blank(value.text)
                     /\ value.highlight = None \/ Blank(value.highlight[1])
        IN  IF matches = {}
            THEN results = << >> /\ extraction[1] = "empty"
            ELSE LET first == CHOOSE k \in matches : \A j \in matches : k <= j IN
                 /\ Len(results) = 1
                 /\ DOMAIN results[1] = { fieldMappings[first].field }
                 /\ (results[1][fieldMappings[first].field] = None) <=> empty
                 /\ extraction[1] = "pushed"

C18_Witness ==
    /\ extraction[1] = "pushed"
    /\ OccursIn(rendered[1][1][1][1].text, << "Status" >>)
    /\ OccursIn(rendered[1][1][1][1].text, << SP, "Name/Title" >>)
    /\ Len(results) = 1
    /\ DOMAIN results[1] = { "nameTitle" }
    /\ results[1]["nameTitle"] = None

\* C19: formFilled is false at the start; a step that changes it changes it
\* from false to true and is the step in which executeSearch returns; a
\* returning executeSearch always sets it; once true it stays true and
\* executeSearch is not called again, so it returns at most once in a run;
\* an attempt of the search step that ends in an error, retryable or not,
\* leaves it false.
C19_FormFilledSetOnceBySearch ==
    /\ formFilled = FALSE
    /\ [][formFilled' # formFilled =>
            /\ formFilled = FALSE
            /\ formFilled' = TRUE
            /\ entry.st = "search"
            /\ entry'.st = "enqueue"
            /\ searchOutcome' = "Success"]_vars
    /\ [][(entry.st = "search" /\ entry'.st = "enqueue") => formFilled' = TRUE]_vars
    /\ [][formFilled = TRUE =>
            /\ formFilled' = TRUE
            /\ searchCalls' = searchCalls
            /\ entry'.st # "search"]_vars
    /\ [][(entry.st = "search" /\ entry'.st \in {"pending", "failed"}) =>
            formFilled' = FALSE]_vars

C19_Witness ==
    /\ formFilled
    /\ searchCalls = 1
    /\ walkerRuns = 2
    /\ entry.retry = 1
    /\ entry.st = "handled"

\* C20 (as stated): whenever the default handler is in its walker loop, the
\* page it works on is a results page that executeSearch produced in this
\* invocation of the handler.
C20_Original ==
    entry.st \in {"enqueue", "next"} => (entry.page >= 1 /\ searchOutcome = "Success")

====
